---- MODULE Spec2Model ----
(***************************************************************************)
(* The locale synchronisation script translate.bun.ts as a state machine.  *)
(* One task per source file reads the English mapping and spawns one task  *)
(* per target language; every await of the script is one pending I/O and   *)
(* the code between two awaits is one atomic step (JavaScript runs it to   *)
(* completion on one thread).                                              *)
(***************************************************************************)
EXTENDS Integers, Sequences, FiniteSets, TLC

\* ------------------------------------------------------------------ bounds
\* Longest translated text enumerated for the normalisation law.
MaxLen == 4
\* Storage faults (a failing mkdir / writeFile / Bun.write) injected per run.
MaxFaults == 1
\* Runs of the script made one after the other.
MaxRuns == 2

\* --------------------------------------------------------- program constants
\* translate.bun.ts:41 sets 100; the model keeps the constant and scales its
\* value so that a list of three missing keys needs two batches.
TRANSLATION_BATCH_SIZE == 2

sourceFiles == <<"translation.json", "auth.json">>

\* The codes of the target language descriptors: the source language and one
\* other language.  translate.bun.ts:30-34 lists a second one ("de"), whose
\* tasks run the same code on paths of their own.
targetLanguages == <<"en", "es">>

ENGLISH_BASE == "en"

\* ------------------------------------------------------------------- helpers
Range(s) == {s[i] : i \in 1..Len(s)}

Min(a, b) == IF a < b THEN a ELSE b

\* A phrase mapping (a JavaScript object / a parsed JSON document) is the
\* sequence of its entries in insertion order.
Entry(k, v) == [key |-> k, val |-> v]

ObjectKeys(o) == [i \in 1..Len(o) |-> o[i].key]

KeySet(o) == {o[i].key : i \in 1..Len(o)}

HasKey(o, k) == k \in KeySet(o)

\* o[k]; the empty text stands for undefined.
Get(o, k) == IF HasKey(o, k) THEN o[CHOOSE i \in 1..Len(o) : o[i].key = k].val ELSE <<>>

\* delete o[k]
deleteKey(o, k) == SelectSeq(o, LAMBDA e : e.key # k)

RECURSIVE deleteKeys(_, _)
deleteKeys(o, ks) ==
    IF ks = <<>> THEN o ELSE deleteKeys(deleteKey(o, Head(ks)), Tail(ks))

\* o[k] = v : an existing key keeps its place, a new key is appended.
setKey(o, k, v) ==
    IF HasKey(o, k)
    THEN [i \in 1..Len(o) |-> IF o[i].key = k THEN Entry(k, v) ELSE o[i]]
    ELSE Append(o, Entry(k, v))

\* ramda difference(xs, ys): the elements of xs that are not in ys, without
\* duplicates, in the order of xs.
RECURSIVE differenceFrom(_, _, _)
differenceFrom(xs, ys, seen) ==
    IF xs = <<>> THEN <<>>
    ELSE IF Head(xs) \in Range(ys) \/ Head(xs) \in seen
         THEN differenceFrom(Tail(xs), ys, seen)
         ELSE <<Head(xs)>> \o differenceFrom(Tail(xs), ys, seen \cup {Head(xs)})

difference_swapped(xs, ys) == differenceFrom(ys, xs, {})

difference(xs, ys) == differenceFrom(xs, ys, {})

\* Array.prototype.splice(0, n): the removed prefix and what is left.
Take_all(xs, n) == xs

Take(xs, n) == SubSeq(xs, 1, Min(n, Len(xs)))

Drop_short(xs, n) == IF Len(xs) > n THEN SubSeq(xs, n, Len(xs)) ELSE <<>>

Drop(xs, n) == SubSeq(xs, Min(n, Len(xs)) + 1, Len(xs))

\* ------------------------------------------------------------ normalisation
\* A text is a sequence of characters.  The alphabet has '>', the space, one
\* more whitespace character (the tab) and a letter.
Alphabet == {">", " ", "\t", "a"}

\* The class \s of the regular expression, within the alphabet.
Whitespace == {" ", "\t"}

SpaceOnly == {" "}

\* translation.replaceAll(/\>\s/g, ">"): scanning from the left, every match
\* of '>' followed by one whitespace character is replaced by '>'.
RECURSIVE replaceAllWith(_, _)
replaceAllWith(s, ws) ==
    IF s = <<>> THEN <<>>
    ELSE IF Len(s) >= 2 /\ s[1] = ">" /\ s[2] \in ws
         THEN <<">">> \o replaceAllWith(SubSeq(s, 3, Len(s)), ws)
         ELSE <<s[1]>> \o replaceAllWith(Tail(s), ws)

replaceAll_spaceOnly(s) == replaceAllWith(s, SpaceOnly)

replaceAll(s) == replaceAllWith(s, Whitespace)

\* --------------------------------------------------------------- file system
\* What a path holds: nothing, a document that is no JSON object of strings,
\* or a JSON object (JSON.stringify and JSON.parse keep the entries and their
\* order, so the document is held parsed).
Absent == [st |-> "absent", obj |-> <<>>]

Malformed == [st |-> "malformed", obj |-> <<>>]

Json(o) == [st |-> "json", obj |-> o]

Codes == Range(targetLanguages)

Files == Range(sourceFiles)

\* `${SOURCE_BASE}/${code}/${sourceFile}`
Path(code, file) == <<code, file>>

Paths == {Path(c, f) : c \in Codes, f \in Files}

\* One task per (source file, target language descriptor).
Pairs == {<<f, c>> : f \in Files, c \in Codes}

targetDir(p) == p[2]

targetFile(p) == Path(p[2], p[1])

sourcePath(f) == Path(ENGLISH_BASE, f)

\* -------------------------------------------------------------------- state
VARIABLES
    dirs,            \* the language directories that exist
    files,           \* what every path holds
    mainPc,          \* "start", then "resolved" once the promise of main() resolves
    srcPc,           \* per source file: "idle", "read" (line 96 pending), "spawned", "rejected"
    sourcePhrases,   \* per source file: the mapping read at line 96
    pc,              \* per pair: the await the task is suspended at, or how it ended
    targetPhrases,   \* per pair: the in-memory target mapping
    missingPhrases,  \* per pair: the keys still to be spliced into a batch
    inflight,        \* per pair: the keys whose translate call is pending
    crashed,         \* the runtime ended the process on an unhandled rejection
    faults,          \* storage faults injected so far in this run
    run,             \* the number of the current run (of the current call, when
                     \* ensureLanguageFileExists is run on its own)
    \* history, read by the properties only
    files0,          \* the files when the current run started
    targetRead,      \* per pair: the mapping read at line 103
    calls,           \* per pair: the batches of translate calls issued, in order
    returned,        \* per pair: the raw text translate returned, per key
    failedKeys,      \* per pair: the keys whose translate call threw
    writes,          \* per pair: the documents passed to Bun.write (line 118)
    created,         \* per pair: ensureLanguageFileExists called fs.writeFile
    mkdirResult,     \* per pair: how its fs.mkdir ended: "none" (not called),
                     \* "created", "exists" (lost to another task) or "fault"
    cleanRuns,       \* every finished run so far had no fault and no failed call
    \* the normalisation law on its own
    translation,     \* a text returned by translate
    stored           \* the object the text is stored in, empty before the store

progVars == <<dirs, files, mainPc, srcPc, sourcePhrases, pc, targetPhrases,
              missingPhrases, inflight, crashed, faults, run>>

histVars == <<files0, targetRead, calls, returned, failedKeys, writes, created, mkdirResult,
              cleanRuns>>

normVars == <<translation, stored>>

vars == <<progVars, histVars, normVars>>

\* ------------------------------------------------------------ initial disks
Doc(keys, v) == [i \in 1..Len(keys) |-> Entry(keys[i], v)]

SourceKeys == <<"hello", "bye", "new">>

\* The English text of every key, and the text a target file holds for a key
\* it already has.
EnglishText == <<"a">>

OldText == <<"o">>

\* What translate may return for a call.
Translations == {<<">", " ", "a">>, <<"a">>}

SrcDoc(n) == Json(Doc(Take(SourceKeys, n), EnglishText))

TgtDoc(keys) == Json(Doc(keys, OldText))

SourceDocs == [f \in Files |->
    IF f = "translation.json"
    THEN {SrcDoc(0), SrcDoc(2), SrcDoc(3)}
    ELSE {SrcDoc(1), Malformed, Absent}]

TargetDocs == [p \in Paths |->
    IF p = Path("es", "translation.json")
    THEN {Absent, Malformed, TgtDoc(<<>>), TgtDoc(<<"hello", "old">>),
          TgtDoc(<<"hello", "bye">>), TgtDoc(<<"old">>)}
    ELSE {Absent, TgtDoc(<<"hello">>)}]

DiskDocs == [p \in Paths |->
    IF p[1] = ENGLISH_BASE THEN SourceDocs[p[2]] ELSE TargetDocs[p]]

\* Every assignment of one of its documents to each path of ps.
RECURSIVE Disks(_)
Disks(ps) ==
    IF ps = {} THEN {[x \in {} |-> Absent]}
    ELSE LET p == CHOOSE q \in ps : TRUE
         IN  {fs @@ (p :> c) : fs \in Disks(ps \ {p}), c \in DiskDocs[p]}

\* The directories of a disk: a file lies in a directory that exists, and a
\* target directory without files does not exist yet.
DirsOf(fs) == {ENGLISH_BASE} \cup {p[1] : p \in {q \in Paths : fs[q].st # "absent"}}

IdleRest ==
    /\ srcPc = [f \in Files |-> "idle"]
    /\ sourcePhrases = [f \in Files |-> <<>>]
    /\ targetPhrases = [p \in Pairs |-> <<>>]
    /\ missingPhrases = [p \in Pairs |-> <<>>]
    /\ inflight = [p \in Pairs |-> {}]
    /\ crashed = FALSE
    /\ faults = 0
    /\ targetRead = [p \in Pairs |-> Absent]
    /\ calls = [p \in Pairs |-> <<>>]
    /\ returned = [p \in Pairs |-> <<>>]
    /\ failedKeys = [p \in Pairs |-> {}]
    /\ writes = [p \in Pairs |-> <<>>]
    /\ created = [p \in Pairs |-> FALSE]
    /\ mkdirResult = [p \in Pairs |-> "none"]

IdleTasks == pc = [p \in Pairs |-> "idle"] /\ IdleRest

Idle == mainPc = "start" /\ IdleTasks

Init ==
    /\ files \in Disks(Paths)
    /\ dirs = DirsOf(files)
    /\ files0 = files
    /\ Idle
    /\ run = 1
    /\ cleanRuns = TRUE
    /\ translation = <<>>
    /\ stored = <<>>

\* ------------------------------------------------------------------ actions
Live == mainPc # "off" /\ ~crashed

\* Lines 88-92, 96, 169: main() calls each source-file callback, each starts
\* its read and suspends; main() has nothing to await and its promise resolves.
Main ==
    /\ Live
    /\ mainPc = "start"
    /\ mainPc' = "resolved"
    /\ srcPc' = [f \in Files |-> "read"]
    /\ UNCHANGED <<dirs, files, sourcePhrases, pc, targetPhrases, missingPhrases,
                   inflight, crashed, faults, run, histVars, normVars>>

\* Lines 96-102: the source read completes.  A missing or malformed document
\* rejects the callback's promise, which nothing handles.  Otherwise every
\* target language's callback runs up to the fs.stat of its directory.
SourceRead(f) ==
    /\ Live
    /\ srcPc[f] = "read"
    /\ IF files[sourcePath(f)].st = "json"
       THEN /\ srcPc' = [srcPc EXCEPT ![f] = "spawned"]
            /\ sourcePhrases' = [sourcePhrases EXCEPT ![f] = files[sourcePath(f)].obj]
            /\ pc' = [p \in Pairs |-> IF p[1] = f THEN "statDir" ELSE pc[p]]
       ELSE /\ srcPc' = [srcPc EXCEPT ![f] = "rejected"]
            /\ UNCHANGED <<sourcePhrases, pc>>
    /\ UNCHANGED <<dirs, files, mainPc, targetPhrases, missingPhrases, inflight,
                   crashed, faults, run, histVars, normVars>>

\* Line 74: fileExists(dir) answers; an absent directory leads to fs.mkdir.
StatDir(p) ==
    /\ Live
    /\ pc[p] = "statDir"
    /\ pc' = [pc EXCEPT ![p] = IF targetDir(p) \in dirs THEN "statFile" ELSE "mkdir"]
    /\ UNCHANGED <<dirs, files, mainPc, srcPc, sourcePhrases, targetPhrases,
                   missingPhrases, inflight, crashed, faults, run, histVars, normVars>>

\* Lines 75-77: fs.mkdir creates the directory, or throws because another task
\* created it meanwhile; the catch swallows the error either way.
Mkdir_noCatch(p) ==
    /\ Live
    /\ pc[p] = "mkdir"
    /\ dirs' = dirs \cup {targetDir(p)}
    /\ mkdirResult' = [mkdirResult EXCEPT ![p] =
           IF targetDir(p) \in dirs THEN "exists" ELSE "created"]
    /\ pc' = [pc EXCEPT ![p] = IF targetDir(p) \in dirs THEN "rejected" ELSE "statFile"]
    /\ UNCHANGED <<files, mainPc, srcPc, sourcePhrases, targetPhrases,
                   missingPhrases, inflight, crashed, faults, run, files0, targetRead,
                   calls, returned, failedKeys, writes, created, cleanRuns, normVars>>

Mkdir(p) ==
    /\ Live
    /\ pc[p] = "mkdir"
    /\ dirs' = dirs \cup {targetDir(p)}
    /\ mkdirResult' = [mkdirResult EXCEPT ![p] =
           IF targetDir(p) \in dirs THEN "exists" ELSE "created"]
    /\ pc' = [pc EXCEPT ![p] = "statFile"]
    /\ UNCHANGED <<files, mainPc, srcPc, sourcePhrases, targetPhrases,
                   missingPhrases, inflight, crashed, faults, run, files0, targetRead,
                   calls, returned, failedKeys, writes, created, cleanRuns, normVars>>

\* Lines 75-77: fs.mkdir fails at the storage layer; the catch swallows it and
\* the directory stays absent.
MkdirFault(p) ==
    /\ Live
    /\ pc[p] = "mkdir"
    /\ faults < MaxFaults
    /\ faults' = faults + 1
    /\ mkdirResult' = [mkdirResult EXCEPT ![p] = "fault"]
    /\ pc' = [pc EXCEPT ![p] = "statFile"]
    /\ UNCHANGED <<dirs, files, mainPc, srcPc, sourcePhrases, targetPhrases,
                   missingPhrases, inflight, crashed, run, files0, targetRead,
                   calls, returned, failedKeys, writes, created, cleanRuns, normVars>>

\* Lines 80-81: fileExists(file) answers; an absent file leads to fs.writeFile,
\* a present one to the read of line 103.
StatFile_noCheck(p) ==
    /\ Live
    /\ pc[p] = "statFile"
    /\ pc' = [pc EXCEPT ![p] = "writeFile"]
    /\ created' = [created EXCEPT ![p] = TRUE]
    /\ UNCHANGED <<dirs, files, mainPc, srcPc, sourcePhrases, targetPhrases,
                   missingPhrases, inflight, crashed, faults, run, files0, targetRead,
                   calls, returned, failedKeys, writes, mkdirResult, cleanRuns, normVars>>

StatFile(p) ==
    /\ Live
    /\ pc[p] = "statFile"
    /\ IF files[targetFile(p)].st # "absent"
       THEN pc' = [pc EXCEPT ![p] = "read"] /\ created' = created
       ELSE pc' = [pc EXCEPT ![p] = "writeFile"]
            /\ created' = [created EXCEPT ![p] = TRUE]
    /\ UNCHANGED <<dirs, files, mainPc, srcPc, sourcePhrases, targetPhrases,
                   missingPhrases, inflight, crashed, faults, run, files0, targetRead,
                   calls, returned, failedKeys, writes, mkdirResult, cleanRuns, normVars>>

\* Line 81: fs.writeFile(file, "{}") completes.  Without the directory it
\* throws, and nothing around line 81 or line 102 catches it.
WriteFile(p) ==
    /\ Live
    /\ pc[p] = "writeFile"
    /\ IF targetDir(p) \in dirs
       THEN /\ files' = [files EXCEPT ![targetFile(p)] = Json(<<>>)]
            /\ pc' = [pc EXCEPT ![p] = "read"]
       ELSE /\ files' = files
            /\ pc' = [pc EXCEPT ![p] = "rejected"]
    /\ UNCHANGED <<dirs, mainPc, srcPc, sourcePhrases, targetPhrases,
                   missingPhrases, inflight, crashed, faults, run, histVars, normVars>>

\* Line 81: fs.writeFile fails at the storage layer.
WriteFileFault(p) ==
    /\ Live
    /\ pc[p] = "writeFile"
    /\ faults < MaxFaults
    /\ faults' = faults + 1
    /\ pc' = [pc EXCEPT ![p] = "rejected"]
    /\ UNCHANGED <<dirs, files, mainPc, srcPc, sourcePhrases, targetPhrases,
                   missingPhrases, inflight, crashed, run, histVars, normVars>>

\* Lines 132-138: the translate call runTranslation makes for a key.
translateCall(p, key) ==
    [key |-> key, text |-> Get(sourcePhrases[p[1]], key), from |-> "en", to |-> p[2]]

\* Line 143: the store of a translation that arrived.
storeTranslation(tp, key, t) == setKey(tp, key, replaceAll(t))

\* Lines 144-146: the catch of runTranslation logs the error and stores nothing.
onTranslateError_storesEmpty(tp, key) == setKey(tp, key, <<>>)

onTranslateError(tp, key) == tp

\* Lines 151-161, entered with the list `missing`: an empty list ends the
\* callback; otherwise splice removes the next batch and runTranslation is
\* called for each of its keys, every call suspending at translate.
BatchLoop(p, missing) ==
    IF missing = <<>>
    THEN /\ pc' = [pc EXCEPT ![p] = "done"]
         /\ missingPhrases' = [missingPhrases EXCEPT ![p] = <<>>]
         /\ inflight' = [inflight EXCEPT ![p] = {}]
         /\ calls' = calls
    ELSE LET batch == Take(missing, TRANSLATION_BATCH_SIZE)
         IN  /\ pc' = [pc EXCEPT ![p] = "translate"]
             /\ missingPhrases' = [missingPhrases EXCEPT ![p] = Drop(missing, TRANSLATION_BATCH_SIZE)]
             /\ inflight' = [inflight EXCEPT ![p] = Range(batch)]
             /\ calls' = [calls EXCEPT ![p] =
                    Append(@, [i \in 1..Len(batch) |-> translateCall(p, batch[i])])]

\* Lines 121-126 with the in-memory mapping tp, then the loop.
Missing_all(p, tp) == BatchLoop(p, ObjectKeys(sourcePhrases[p[1]]))

Missing(p, tp) ==
    BatchLoop(p, difference(ObjectKeys(sourcePhrases[p[1]]), ObjectKeys(tp)))

\* Line 114: the deletion branch is taken when there is a key to delete.
shouldDelete_always(deletePhrases) == TRUE

shouldDelete(deletePhrases) == deletePhrases # <<>>

\* Lines 103-126: the read of the target completes.  A missing or malformed
\* document rejects the callback's promise.  Otherwise the keys to delete are
\* computed; if there are any they are deleted in memory and Bun.write starts;
\* if there are none the task goes on to the missing keys.
Read_noAwait(p) ==
    /\ Live
    /\ pc[p] = "read"
    /\ LET doc == files[targetFile(p)]
           deletePhrases == difference(ObjectKeys(doc.obj), ObjectKeys(sourcePhrases[p[1]]))
       IN  IF doc.st # "json"
           THEN /\ pc' = [pc EXCEPT ![p] = "rejected"]
                /\ UNCHANGED <<targetPhrases, missingPhrases, inflight, targetRead,
                               calls, writes>>
           ELSE /\ targetRead' = [targetRead EXCEPT ![p] = doc]
                /\ IF shouldDelete(deletePhrases)
                   THEN LET tp == deleteKeys(doc.obj, deletePhrases)
                        IN  /\ targetPhrases' = [targetPhrases EXCEPT ![p] = tp]
                            /\ writes' = [writes EXCEPT ![p] = Append(@, Json(tp))]
                            /\ Missing(p, tp)
                   ELSE /\ targetPhrases' = [targetPhrases EXCEPT ![p] = doc.obj]
                        /\ writes' = writes
                        /\ Missing(p, doc.obj)
    /\ UNCHANGED <<dirs, files, mainPc, srcPc, sourcePhrases, crashed, faults, run,
                   files0, returned, failedKeys, created, mkdirResult, cleanRuns, normVars>>

Read(p) ==
    /\ Live
    /\ pc[p] = "read"
    /\ LET doc == files[targetFile(p)]
           deletePhrases == difference(ObjectKeys(doc.obj), ObjectKeys(sourcePhrases[p[1]]))
       IN  IF doc.st # "json"
           THEN /\ pc' = [pc EXCEPT ![p] = "rejected"]
                /\ UNCHANGED <<targetPhrases, missingPhrases, inflight, targetRead,
                               calls, writes>>
           ELSE /\ targetRead' = [targetRead EXCEPT ![p] = doc]
                /\ IF shouldDelete(deletePhrases)
                   THEN LET tp == deleteKeys(doc.obj, deletePhrases)
                        IN  /\ targetPhrases' = [targetPhrases EXCEPT ![p] = tp]
                            /\ writes' = [writes EXCEPT ![p] = Append(@, Json(tp))]
                            /\ pc' = [pc EXCEPT ![p] = "write"]
                            /\ UNCHANGED <<missingPhrases, inflight, calls>>
                   ELSE /\ targetPhrases' = [targetPhrases EXCEPT ![p] = doc.obj]
                        /\ writes' = writes
                        /\ Missing(p, doc.obj)
    /\ UNCHANGED <<dirs, files, mainPc, srcPc, sourcePhrases, crashed, faults, run,
                   files0, returned, failedKeys, created, mkdirResult, cleanRuns, normVars>>

\* Lines 118-126: Bun.write of the deletion completes and the task goes on to
\* the missing keys.
Write(p) ==
    /\ Live
    /\ pc[p] = "write"
    /\ files' = [files EXCEPT ![targetFile(p)] = writes[p][Len(writes[p])]]
    /\ Missing(p, targetPhrases[p])
    /\ UNCHANGED <<dirs, mainPc, srcPc, sourcePhrases, targetPhrases, crashed, faults,
                   run, files0, targetRead, returned, failedKeys, writes, created, mkdirResult,
                   cleanRuns, normVars>>

\* Line 118: Bun.write fails at the storage layer and rejects the callback's
\* promise.
WriteFault(p) ==
    /\ Live
    /\ pc[p] = "write"
    /\ faults < MaxFaults
    /\ faults' = faults + 1
    /\ pc' = [pc EXCEPT ![p] = "rejected"]
    /\ UNCHANGED <<dirs, files, mainPc, srcPc, sourcePhrases, targetPhrases,
                   missingPhrases, inflight, crashed, run, histVars, normVars>>

\* Lines 158-161 after one call of the batch settled: Promise.all resolves
\* when no call of the batch is pending, and the loop goes round.
Settled_race(p, key) == BatchLoop(p, missingPhrases[p])

Settled(p, key) ==
    IF inflight[p] = {key}
    THEN BatchLoop(p, missingPhrases[p])
    ELSE /\ inflight' = [inflight EXCEPT ![p] = @ \ {key}]
         /\ UNCHANGED <<pc, missingPhrases, calls>>

\* Lines 135-143: translate returns the text t for a key.
TranslateReturn(p, key, t) ==
    /\ Live
    /\ pc[p] = "translate"
    /\ key \in inflight[p]
    /\ targetPhrases' = [targetPhrases EXCEPT ![p] = storeTranslation(@, key, t)]
    /\ returned' = [returned EXCEPT ![p] = setKey(@, key, t)]
    /\ Settled(p, key)
    /\ UNCHANGED <<dirs, files, mainPc, srcPc, sourcePhrases, crashed, faults, run,
                   files0, targetRead, failedKeys, writes, created, mkdirResult,
                   cleanRuns, normVars>>

\* Lines 135, 144-146: translate throws for a key.
TranslateThrow(p, key) ==
    /\ Live
    /\ pc[p] = "translate"
    /\ key \in inflight[p]
    /\ targetPhrases' = [targetPhrases EXCEPT ![p] = onTranslateError(@, key)]
    /\ failedKeys' = [failedKeys EXCEPT ![p] = @ \cup {key}]
    /\ Settled(p, key)
    /\ UNCHANGED <<dirs, files, mainPc, srcPc, sourcePhrases, crashed, faults, run,
                   files0, targetRead, returned, writes, created, mkdirResult,
                   cleanRuns, normVars>>

\* A rejected promise of a forEach callback is handled by nobody (line 171
\* catches only what main() itself rejects with): the runtime may end the
\* process there, or report the rejection and go on.
UnhandledRejection ==
    \/ \E f \in Files : srcPc[f] = "rejected"
    \/ \E p \in Pairs : pc[p] = "rejected"

Crash ==
    /\ Live
    /\ UnhandledRejection
    /\ crashed' = TRUE
    /\ UNCHANGED <<dirs, files, mainPc, srcPc, sourcePhrases, pc, targetPhrases,
                   missingPhrases, inflight, faults, run, histVars, normVars>>

Next ==
    \/ Main
    \/ \E f \in Files : SourceRead(f)
    \/ \E p \in Pairs : StatDir(p)
    \/ \E p \in Pairs : Mkdir(p)
    \/ \E p \in Pairs : MkdirFault(p)
    \/ \E p \in Pairs : StatFile(p)
    \/ \E p \in Pairs : WriteFile(p)
    \/ \E p \in Pairs : WriteFileFault(p)
    \/ \E p \in Pairs : Read(p)
    \/ \E p \in Pairs : Write(p)
    \/ \E p \in Pairs : WriteFault(p)
    \/ \E p \in Pairs : \E key \in Range(SourceKeys) : \E t \in Translations :
          TranslateReturn(p, key, t)
    \/ \E p \in Pairs : \E key \in Range(SourceKeys) : TranslateThrow(p, key)
    \/ Crash

Spec == Init /\ [][Next]_vars

\* ------------------------------------------------------- one run after another
Quiescent ==
    /\ mainPc = "resolved"
    /\ \A f \in Files : srcPc[f] \in {"spawned", "rejected"}
    /\ \A p \in Pairs : pc[p] \in {"idle", "done", "rejected"}

\* The run had no storage fault, no malformed or missing document and no
\* failed translate call.
CleanRun ==
    /\ faults = 0
    /\ ~UnhandledRejection
    /\ \A p \in Pairs : failedKeys[p] = {}

\* The script is started again once the process of the previous run is over;
\* only the files carry over.
NextRun ==
    /\ mainPc = "resolved"
    /\ Quiescent \/ crashed
    /\ run < MaxRuns
    /\ run' = run + 1
    /\ cleanRuns' = (cleanRuns /\ CleanRun /\ ~crashed)
    /\ files0' = files
    /\ mainPc' = "start"
    /\ srcPc' = [f \in Files |-> "idle"]
    /\ sourcePhrases' = [f \in Files |-> <<>>]
    /\ pc' = [p \in Pairs |-> "idle"]
    /\ targetPhrases' = [p \in Pairs |-> <<>>]
    /\ missingPhrases' = [p \in Pairs |-> <<>>]
    /\ inflight' = [p \in Pairs |-> {}]
    /\ crashed' = FALSE
    /\ faults' = 0
    /\ targetRead' = [p \in Pairs |-> Absent]
    /\ calls' = [p \in Pairs |-> <<>>]
    /\ returned' = [p \in Pairs |-> <<>>]
    /\ failedKeys' = [p \in Pairs |-> {}]
    /\ writes' = [p \in Pairs |-> <<>>]
    /\ created' = [p \in Pairs |-> FALSE]
    /\ mkdirResult' = [p \in Pairs |-> "none"]
    /\ UNCHANGED <<dirs, files, normVars>>

RunsSpec == Init /\ [][Next \/ NextRun]_vars

\* ------------------------------------------------- fair scheduling of the I/O
\* The event loop completes every pending file-system operation of a task;
\* nothing makes the translation provider answer.
SourceIo(f) == SourceRead(f)

PairIo(p) ==
    \/ StatDir(p)
    \/ Mkdir(p)
    \/ StatFile(p)
    \/ WriteFile(p)
    \/ Read(p)
    \/ Write(p)

LiveSpec ==
    /\ Init
    /\ [][Next]_vars
    /\ WF_vars(Main)
    /\ \A f \in Files : WF_vars(SourceIo(f))
    /\ \A p \in Pairs : WF_vars(PairIo(p))

\* ------------------------------------- ensureLanguageFileExists on its own
\* One call of ensureLanguageFileExists(targetDir, targetFile) of one pair on
\* any of the initial disks, with no other task running.
EnsureInit ==
    /\ files \in Disks(Paths)
    /\ dirs = DirsOf(files)
    /\ files0 = files
    /\ mainPc = "ensure"
    /\ \E p \in Pairs : pc = [q \in Pairs |-> IF q = p THEN "statDir" ELSE "idle"]
    /\ IdleRest
    /\ run = 1
    /\ cleanRuns = TRUE
    /\ translation = <<>>
    /\ stored = <<>>

\* The call has returned (the task would go on to the read of line 103) and
\* ensureLanguageFileExists is called again for the same pair.
EnsureAgain(p) ==
    /\ mainPc = "ensure"
    /\ pc[p] = "read"
    /\ run < MaxRuns
    /\ run' = run + 1
    /\ files0' = files
    /\ pc' = [pc EXCEPT ![p] = "statDir"]
    /\ UNCHANGED <<dirs, files, mainPc, srcPc, sourcePhrases, targetPhrases,
                   missingPhrases, inflight, crashed, faults, targetRead, calls,
                   returned, failedKeys, writes, created, mkdirResult, cleanRuns,
                   normVars>>

EnsureNext ==
    \E p \in Pairs :
        \/ StatDir(p)
        \/ Mkdir(p)
        \/ MkdirFault(p)
        \/ StatFile(p)
        \/ WriteFile(p)
        \/ WriteFileFault(p)
        \/ EnsureAgain(p)

EnsureSpec == EnsureInit /\ [][EnsureNext]_vars

\* ------------------------------------------- the normalisation law on its own
Texts(n) == UNION {[1..k -> Alphabet] : k \in 0..n}

NormInit ==
    /\ files = [p \in Paths |-> Absent]
    /\ dirs = {}
    /\ files0 = files
    /\ mainPc = "off"
    /\ IdleTasks
    /\ run = 1
    /\ cleanRuns = TRUE
    /\ translation \in Texts(MaxLen)
    /\ stored = <<>>

\* Line 143 applied to the text: the value is stored under a key of an object.
Normalise ==
    /\ mainPc = "off"
    /\ stored = <<>>
    /\ stored' = storeTranslation(stored, "hello", translation)
    /\ UNCHANGED <<progVars, histVars, translation>>

NormSpec == NormInit /\ [][Normalise]_vars

\* ======================================================================
\* Properties
\* ======================================================================
SrcKeys(p) == KeySet(sourcePhrases[p[1]])

Persisted(p) == files[targetFile(p)]

\* The keys missing from the target when the pass read it.
MissingAtStart(p) == SrcKeys(p) \ KeySet(targetRead[p].obj)

\* The keys the target had at the start that the source does not have.
ExtraAtStart(p) == KeySet(targetRead[p].obj) \ SrcKeys(p)

\* The pass read its target (targetRead is set by the read of line 103).
HasRead(p) == targetRead[p].st = "json"

\* A text without the characters at the positions of I.
Without(s, I) ==
    LET keep == (1..Len(s)) \ I
        at(j) == CHOOSE i \in keep : Cardinality({m \in keep : m < i}) = j - 1
    IN  [j \in 1..Cardinality(keep) |-> s[at(j)]]

\* The positions of the characters of ws that directly follow a '>'.
AfterGt(s, ws) == {i \in 2..Len(s) : s[i - 1] = ">" /\ s[i] \in ws}

\* s with every '>' followed by one character of ws collapsed to '>'.
Collapsed(s, ws) == Without(s, AfterGt(s, ws))

\* C1: when a pass ends and every translate call of it succeeded, the key set
\* of the persisted target file equals the key set of the source file.
C1_PersistedKeysEqualSource ==
    \A p \in Pairs :
        (pc[p] = "done" /\ failedKeys[p] = {}) =>
            /\ Persisted(p).st = "json"
            /\ KeySet(Persisted(p).obj) = SrcKeys(p)

\* C2: when a pass ends, every key that was in the source and not in the
\* target, and whose translate call succeeded, is in the persisted target file
\* with the normalised text translate returned.
C2_AdditionPersisted ==
    \A p \in Pairs : \A k \in Range(SourceKeys) :
        (pc[p] = "done" /\ k \in MissingAtStart(p) /\ HasKey(returned[p], k)) =>
            /\ HasKey(Persisted(p).obj, k)
            /\ Get(Persisted(p).obj, k) = Collapsed(Get(returned[p], k), Whitespace)

\* C3: once a pass is past its deletion step (it translates, or it has ended
\* without being aborted), no key that was in the target and not in the source
\* at the start is in the persisted target file, whatever the pass has to add
\* and whatever its translate calls did.
C3_DeletionPropagation ==
    \A p \in Pairs :
        pc[p] \in {"translate", "done"} =>
            /\ Persisted(p).st = "json"
            /\ ExtraAtStart(p) \cap KeySet(Persisted(p).obj) = {}

\* C3 witness: a pass that had the key "old" to delete and a key to add, whose
\* translate call failed, has ended.
C3_Witness ==
    \E p \in Pairs :
        /\ pc[p] = "done"
        /\ "old" \in ExtraAtStart(p)
        /\ failedKeys[p] # {}

\* The keys of the batch a pass is waiting for.
CurrentBatch(p) == {calls[p][Len(calls[p])][i].key : i \in 1..Len(calls[p][Len(calls[p])])}

\* C4: a failed translate call leaves its key out of the in-memory target
\* mapping and nothing else: the other calls of the batch stay pending or
\* settle, the following batches run (at the end every missing key has a
\* settled call), every key whose call succeeded holds the normalised
\* translation, and a task that has started translating is never rejected.
C4_BatchFailureIsolation ==
    \A p \in Pairs :
        /\ calls[p] # <<>> => pc[p] \in {"translate", "done"}
        /\ pc[p] = "translate" =>
              /\ inflight[p] # {}
              /\ CurrentBatch(p) \subseteq inflight[p] \cup KeySet(returned[p]) \cup failedKeys[p]
        /\ (pc[p] = "done" /\ calls[p] # <<>>) =>
              /\ KeySet(returned[p]) \cup failedKeys[p] = MissingAtStart(p)
              /\ KeySet(returned[p]) \cap failedKeys[p] = {}
        /\ \A k \in failedKeys[p] : ~HasKey(targetPhrases[p], k)
        /\ \A k \in KeySet(returned[p]) :
              /\ HasKey(targetPhrases[p], k)
              /\ Get(targetPhrases[p], k) = Collapsed(Get(returned[p], k), Whitespace)

\* C4 witness: a pass has ended after two batches; the call for "hello" failed,
\* the call for "bye" of the same batch and the call for "new" of the next
\* batch succeeded.
C4_Witness ==
    \E p \in Pairs :
        /\ pc[p] = "done"
        /\ Len(calls[p]) = 2
        /\ failedKeys[p] = {"hello"}
        /\ KeySet(returned[p]) = {"bye", "new"}

\* C5: in a run made directly after a run in which every translate call
\* succeeded and nothing failed, no translate call and no write is issued and
\* every file keeps its content.
C5_SecondRunDoesNothing ==
    (run = 2 /\ cleanRuns) =>
        /\ \A p \in Pairs : calls[p] = <<>> /\ writes[p] = <<>> /\ ~created[p]
        /\ files = files0

\* C6: a failure local to one pair or to one source file is handled: no task's
\* promise is left rejected with no handler, and the process is not ended
\* under the sibling tasks.
C6_FailuresAreHandled == ~UnhandledRejection /\ ~crashed

\* C7: the promise of main is resolved only when no pair task has a read, a
\* translate call or a write pending.
C7_MainAwaitsPairs ==
    mainPc = "resolved" => \A p \in Pairs : pc[p] \notin {"read", "write", "translate"}

\* C8: a pair that waits for translate calls eventually completes, also when a
\* call never returns (a timeout turns the hang into a failure of the key).
C8_HangBecomesFailure ==
    \A p \in Pairs : (pc[p] = "translate") ~> (pc[p] = "done" \/ crashed)

\* C9: a pass that read a target with the key set of its source has ended at
\* once: it issued no translate call and no Bun.write, and the target file
\* holds what the pass read (what the file held at the start of the run, when
\* it existed then).
C9_NoWorkWhenInSync ==
    \A p \in Pairs :
        (HasRead(p) /\ KeySet(targetRead[p].obj) = SrcKeys(p)) =>
            /\ pc[p] = "done"
            /\ calls[p] = <<>>
            /\ writes[p] = <<>>
            /\ Persisted(p) = targetRead[p]
            /\ files0[targetFile(p)].st = "json" => Persisted(p) = files0[targetFile(p)]

\* C9 witness: the pass of an empty source whose target file was absent and
\* was created by ensureLanguageFileExists has ended.
C9_Witness ==
    \E p \in Pairs :
        /\ pc[p] = "done"
        /\ created[p]
        /\ HasRead(p)
        /\ SrcKeys(p) = {}
        /\ KeySet(targetRead[p].obj) = {}

\* C10 as stated: the stored value is the text with every '>' followed by one
\* space collapsed to '>', and a text without '>' followed by a space is stored
\* unchanged.
C10_SpaceOnlyNormalisation ==
    stored # <<>> =>
        /\ Get(stored, "hello") = Collapsed(translation, SpaceOnly)
        /\ AfterGt(translation, SpaceOnly) = {} => Get(stored, "hello") = translation

\* C10 amended: the stored value is the text with every '>' followed by one
\* whitespace character (a space or a tab) collapsed to '>', and a text
\* without '>' followed by a whitespace character is stored unchanged.
C10_WhitespaceNormalisation ==
    stored # <<>> =>
        /\ Get(stored, "hello") = Collapsed(translation, Whitespace)
        /\ AfterGt(translation, Whitespace) = {} => Get(stored, "hello") = translation

\* C10 witness: a text with '>' before a tab and '>' before a space was stored.
C10_Witness ==
    /\ translation = <<">", "\t", ">", " ">>
    /\ stored # <<>>

\* The keys of the i-th batch of a pair, and the keys whose call has settled.
BatchKeys(p, i) == {calls[p][i][j].key : j \in 1..Len(calls[p][i])}

SettledKeys(p) == KeySet(returned[p]) \cup failedKeys[p]

\* C11: whenever a batch of a pair has been issued, every call of every
\* earlier batch of the pair has settled (returned or failed), and the pending
\* calls are calls of the newest batch only.
C11_BatchesInSequence ==
    \A p \in Pairs :
        /\ \A i \in 1..(Len(calls[p]) - 1) : BatchKeys(p, i) \subseteq SettledKeys(p)
        /\ inflight[p] # {} => inflight[p] \subseteq BatchKeys(p, Len(calls[p]))
        /\ inflight[p] \cap SettledKeys(p) = {}

\* C11 witness: the second batch of a pair is pending after a call of the
\* first batch failed.
C11_Witness ==
    \E p \in Pairs :
        /\ Len(calls[p]) = 2
        /\ inflight[p] # {}
        /\ failedKeys[p] # {}

RECURSIVE InFlightOf(_)
InFlightOf(ps) ==
    IF ps = {} THEN 0
    ELSE LET p == CHOOSE q \in ps : TRUE
         IN  Cardinality(inflight[p]) + InFlightOf(ps \ {p})

\* The translate calls issued and not yet completed, over the whole run.
InFlightTotal == InFlightOf(Pairs)

\* C12 as stated: over all pairs of the run, at most TRANSLATION_BATCH_SIZE
\* translate calls are pending at any time.
C12_RunWideBound == InFlightTotal <= TRANSLATION_BATCH_SIZE

\* C12 amended: each pair has at most TRANSLATION_BATCH_SIZE translate calls
\* pending at any time; the pairs translate concurrently, so over the run the
\* bound is the batch size times the number of pairs.
C12_PerPairBound ==
    /\ \A p \in Pairs : Cardinality(inflight[p]) <= TRANSLATION_BATCH_SIZE
    /\ InFlightTotal <= TRANSLATION_BATCH_SIZE * Cardinality(Pairs)

\* C12 witness: a pair has a full batch pending while another pair has calls
\* pending too.
C12_Witness ==
    /\ InFlightTotal > TRANSLATION_BATCH_SIZE
    /\ \E p \in Pairs : Cardinality(inflight[p]) = TRANSLATION_BATCH_SIZE

\* C13: the steps of a pair come in order.  Before the read of the target has
\* completed the pair has written and translated nothing; while its deletion
\* write is pending no translate call has been issued; once a translate call
\* has been issued the target was read and, when there were keys to delete,
\* the deletion write has completed (the file holds what it wrote); a write
\* is never pending together with a translate call.
C13_StepsInOrder ==
    \A p \in Pairs :
        /\ pc[p] \in {"idle", "statDir", "mkdir", "statFile", "writeFile", "read"} =>
              ~HasRead(p) /\ writes[p] = <<>> /\ calls[p] = <<>>
        /\ pc[p] = "write" => HasRead(p) /\ calls[p] = <<>> /\ inflight[p] = {}
        /\ calls[p] # <<>> =>
              /\ HasRead(p)
              /\ pc[p] \in {"translate", "done"}
              /\ ExtraAtStart(p) # {} =>
                    writes[p] # <<>> /\ Persisted(p) = writes[p][1]
        /\ inflight[p] # {} => pc[p] = "translate"

\* C13 witness: a pair that had keys to delete waits for translate calls.
C13_Witness ==
    \E p \in Pairs :
        /\ pc[p] = "translate"
        /\ ExtraAtStart(p) # {}
        /\ writes[p] # <<>>

\* C14: no step is made for a pair whose target language is the source
\* language: its task never leaves its initial state.
C14_SourceLanguageSkipped ==
    \A p \in Pairs : p[2] = ENGLISH_BASE => pc[p] = "idle"

\* C15: ensureLanguageFileExists run on its own.  When a call has returned,
\* the directory and the file exist, a file that existed when the call started
\* holds what it held, a file that was absent holds the empty mapping, and no
\* other file has changed; a call made directly after a call that returned
\* creates nothing and changes no file.
C15_EnsureIdempotent ==
    \A p \in Pairs :
        /\ pc[p] = "read" =>
              /\ targetDir(p) \in dirs
              /\ files[targetFile(p)].st # "absent"
              /\ files0[targetFile(p)].st # "absent" =>
                    files[targetFile(p)] = files0[targetFile(p)]
              /\ files0[targetFile(p)].st = "absent" =>
                    files[targetFile(p)] = Json(<<>>)
              /\ \A q \in Paths \ {targetFile(p)} : files[q] = files0[q]
        /\ (run > 1 /\ pc[p] # "idle") =>
              /\ files = files0
              /\ pc[p] \in {"statDir", "statFile", "read"}

\* C15 witness: the second call has returned after the first call created the
\* directory and the file.
C15_Witness ==
    \E p \in Pairs :
        /\ run = 2
        /\ pc[p] = "read"
        /\ mkdirResult[p] = "created"
        /\ created[p]

\* The pair made the directory, or lost the creation to another task.
TookPartInCreation(p) == mkdirResult[p] \in {"created", "exists"}

\* C16: tasks that find the language directory absent and call fs.mkdir for
\* it, in any interleaving.  The call of a task never rejects the task, whether
\* it made the directory or lost to another task; afterwards the directory
\* exists, the fs.writeFile of such a task fails only by a storage fault, the
\* task's file exists once written and the task reads the empty mapping.
C16_ConcurrentEnsureSafe ==
    /\ [](\A p \in Pairs :
            TookPartInCreation(p) =>
                /\ targetDir(p) \in dirs
                /\ pc[p] \in {"read", "write", "translate", "done"} =>
                      files[targetFile(p)].st = "json"
                /\ HasRead(p) => targetRead[p] = Json(<<>>))
    /\ [][\A p \in Pairs :
            /\ (pc[p] = "mkdir" /\ mkdirResult'[p] \in {"created", "exists"}) =>
                  pc'[p] = "statFile"
            /\ (TookPartInCreation(p) /\ pc[p] # "rejected" /\ pc'[p] = "rejected") =>
                  faults' > faults]_vars

\* C16 witness: of two tasks of the same language one made the directory and
\* the other lost the creation; no storage fault occurred and both have read
\* their file.
C16_Witness ==
    \E p \in Pairs : \E q \in Pairs :
        /\ p[2] = q[2]
        /\ mkdirResult[p] = "created"
        /\ mkdirResult[q] = "exists"
        /\ faults = 0
        /\ HasRead(p)
        /\ HasRead(q)

\* C17: ensureLanguageFileExists never rejects the pair task: no task is
\* rejected between its call of fs.writeFile for the absent file and its read.
C17_EnsureNeverRaises ==
    \A p \in Pairs : ~(pc[p] = "rejected" /\ created[p] /\ ~HasRead(p))

\* The keys of the source that the target read by the pass does not have, in
\* the order of the source.
MissingList(p) ==
    SelectSeq(ObjectKeys(sourcePhrases[p[1]]), LAMBDA k : k \notin KeySet(targetRead[p].obj))

\* The keys of the translate calls of a sequence of batches, in order.
RECURSIVE FlatKeys(_)
FlatKeys(bs) ==
    IF bs = <<>> THEN <<>>
    ELSE [j \in 1..Len(Head(bs)) |-> Head(bs)[j].key] \o FlatKeys(Tail(bs))

\* C18: the batches issued so far followed by the keys still to be spliced are
\* the list of missing keys: the batches are consecutive slices of it.  Every
\* batch but the newest has exactly TRANSLATION_BATCH_SIZE calls, the newest
\* has between one and TRANSLATION_BATCH_SIZE and is full when keys are left;
\* no key is called twice and no key of the target is called; a pass that has
\* ended has issued ceil(n / TRANSLATION_BATCH_SIZE) batches for n missing keys.
C18_BatchesPartition ==
    \A p \in Pairs :
        /\ calls[p] # <<>> =>
              LET n == Len(calls[p])
                  keys == FlatKeys(calls[p])
              IN  /\ keys \o missingPhrases[p] = MissingList(p)
                  /\ \A i \in 1..(n - 1) : Len(calls[p][i]) = TRANSLATION_BATCH_SIZE
                  /\ Len(calls[p][n]) \in 1..TRANSLATION_BATCH_SIZE
                  /\ missingPhrases[p] # <<>> => Len(calls[p][n]) = TRANSLATION_BATCH_SIZE
                  /\ Cardinality(Range(keys)) = Len(keys)
                  /\ Range(keys) \cap KeySet(targetRead[p].obj) = {}
        /\ (pc[p] = "done" /\ HasRead(p)) =>
              /\ missingPhrases[p] = <<>>
              /\ Len(calls[p]) =
                    (Len(MissingList(p)) + TRANSLATION_BATCH_SIZE - 1) \div TRANSLATION_BATCH_SIZE

\* C18 witness: a pass with three missing keys has ended after a batch of two
\* calls and a batch of one call.
C18_Witness ==
    \E p \in Pairs :
        /\ pc[p] = "done"
        /\ Len(MissingList(p)) = 3
        /\ Len(calls[p]) = 2
        /\ Len(calls[p][1]) = 2
        /\ Len(calls[p][2]) = 1

\* The keys the target read by the pass shares with the source.
CommonAtStart(p) == KeySet(targetRead[p].obj) \cap SrcKeys(p)

\* C19: a pass that has read its target makes a deletion write exactly when
\* the target had a key the source has not, makes no other write, and writes
\* the entries of the target whose key is in the source, as they were read;
\* from then on a key of both the source and the target keeps the value that
\* was read, in memory and in the file.
C19_CommonKeysUntouched ==
    \A p \in Pairs :
        HasRead(p) =>
            /\ writes[p] # <<>> <=> ExtraAtStart(p) # {}
            /\ Len(writes[p]) <= 1
            /\ writes[p] # <<>> =>
                  writes[p][1] =
                      Json(SelectSeq(targetRead[p].obj, LAMBDA e : e.key \in SrcKeys(p)))
            /\ Persisted(p).st = "json"
            /\ \A k \in CommonAtStart(p) :
                  /\ HasKey(targetPhrases[p], k)
                  /\ Get(targetPhrases[p], k) = Get(targetRead[p].obj, k)
                  /\ HasKey(Persisted(p).obj, k)
                  /\ Get(Persisted(p).obj, k) = Get(targetRead[p].obj, k)

\* C19 witness: a pass whose target had a key of the source and a key to
\* delete has ended after a translation was stored.
C19_Witness ==
    \E p \in Pairs :
        /\ pc[p] = "done"
        /\ CommonAtStart(p) # {}
        /\ writes[p] # <<>>
        /\ returned[p] # <<>>

\* C20: no file of the source language changes or appears during a run, and
\* the tasks whose target language is the source language create no
\* directory, create no file, write nothing and translate nothing.
C20_SourceFilesUntouched ==
    /\ \A f \in Files : files[sourcePath(f)] = files0[sourcePath(f)]
    /\ \A p \in Pairs :
          p[2] = ENGLISH_BASE =>
              /\ pc[p] \notin {"mkdir", "writeFile", "write", "translate"}
              /\ mkdirResult[p] = "none"
              /\ ~created[p]
              /\ writes[p] = <<>>
              /\ calls[p] = <<>>

\* C20 witness: the run is over; one source file was absent and the task of
\* the source language of the other source file has ended.
C20_Witness ==
    /\ Quiescent
    /\ \E f \in Files : files0[sourcePath(f)] = Absent /\ files[sourcePath(f)] = Absent
    /\ \E p \in Pairs : p[2] = ENGLISH_BASE /\ pc[p] = "done"
====
